---- MODULE Spec2Model ----
(***************************************************************************)
(* Model of relay.ImageHelper (src/relay/image_handler.go): one execution  *)
(* of the image relay pipeline, one action per stage of the handler, and   *)
(* of its helper getImageCountAndSizeInfo.                                  *)
(*                                                                         *)
(* Byte bodies are sequences of <<key, value>> pairs (the order of the     *)
(* pairs is part of the bytes).  Header values and multipart field names   *)
(* are sequences of one-character strings so that strings.HasPrefix is     *)
(* computed, not assumed.  The Chinese labels of the log line are written  *)
(* in ASCII ("size", "quality", "count", "input images").                  *)
(***************************************************************************)
EXTENDS Integers, Sequences, FiniteSets, TLC

(* ------------------------------ bounds -------------------------------- *)
MaxN == 1
MaxTokens == 1

(* ------------------------- program constants -------------------------- *)
StatusOK == 200
StatusBadRequest == 400
StatusInternalServerError == 500
KB == 1024

(* ------------------------------ strings ------------------------------- *)
EventStreamPrefix == <<"t","e","x","t","/","e","v","e","n","t","-","s","t","r","e","a","m">>
ImagePrefix == <<"i","m","a","g","e","[">>
FieldImage == <<"i","m","a","g","e">>
FieldImageArr == <<"i","m","a","g","e","[","]">>
FieldImage0 == <<"i","m","a","g","e","[","0","]">>
FieldImage1 == <<"i","m","a","g","e","[","1","]">>
FieldMask == <<"m","a","s","k">>

HasPrefix(s, prefix) ==
    /\ Len(s) >= Len(prefix)
    /\ SubSeq(s, 1, Len(prefix)) = prefix

(* Content-Type values an upstream may answer with. *)
CtEventStream == EventStreamPrefix
CtEventStreamCharset == EventStreamPrefix \o <<";"," ","c","h","a","r","s","e","t","=","u","t","f","-","8">>
CtJson == <<"a","p","p","l","i","c","a","t","i","o","n","/","j","s","o","n">>
CtNotPrefix == <<"x","-">> \o EventStreamPrefix
ContentTypes == {<<>>, CtJson, CtNotPrefix, CtEventStream, CtEventStreamCharset}

(* ------------------------------ errors -------------------------------- *)
NoError == [code |-> "", StatusCode |-> 0, skipRetry |-> FALSE]

(* types.NewErrorWithStatusCode / types.NewOpenAIError *)
NewErrorWithStatusCode(errorCode, statusCode, skip) ==
    [code |-> errorCode, StatusCode |-> statusCode, skipRetry |-> skip]

(* types.NewError: the status code defaults to 500 *)
NewError(errorCode, skip) ==
    NewErrorWithStatusCode(errorCode, StatusInternalServerError, skip)

(* service.RelayErrorHandler: the error interpreter for a failed response *)
RelayErrorHandler(resp) ==
    [code |-> "bad_response_status_code", StatusCode |-> resp.StatusCode,
     skipRetry |-> FALSE]

(* service.ResetStatusCode: a mapping is a set of <<from, to>> pairs *)
ResetStatusCode(e, mapping) ==
    IF e.StatusCode # StatusOK /\ \E p \in mapping : p[1] = e.StatusCode
    THEN [e EXCEPT !.StatusCode = (CHOOSE p \in mapping : p[1] = e.StatusCode)[2]]
    ELSE e

StatusCodeMappings == { {}, {<<429, 500>>, <<400, 422>>} }
UpstreamStatusCodes == {StatusOK, 201, StatusBadRequest, 429}

(* ------------------------------ requests ------------------------------ *)
Sizes == {"", "1024x1024"}
Qualities == {"", "hd", "HD"}
ImageRequests ==
    [kind : {"ImageRequest"}, Model : {"dall-e-3"}, N : 0..MaxN,
     Size : Sizes, Quality : Qualities]
OtherRequest ==
    [kind |-> "GeneralOpenAIRequest", Model |-> "dall-e-3", N |-> 0,
     Size |-> "", Quality |-> ""]
NoRequest == [kind |-> "nil", Model |-> "", N |-> 0, Size |-> "", Quality |-> ""]

(* common.DeepCopy: an independent value with the same fields *)
DeepCopy(r) ==
    [kind |-> r.kind, Model |-> r.Model, N |-> r.N, Size |-> r.Size,
     Quality |-> r.Quality]

(* helper.ModelMappedHelper: the channel's model mapping, applied to the copy *)
ModelMapping(m) == IF m = "dall-e-3" THEN "dall-e-3-upstream" ELSE m
ModelMappedHelper(r, mapped) ==
    IF mapped THEN [r EXCEPT !.Model = ModelMapping(r.Model)] ELSE r

(* ------------------------------- bodies ------------------------------- *)
KeyOrder == <<"model", "prompt", "n", "size", "quality", "user">>
HasKey(pairs, k) == \E p \in pairs : p[1] = k
ValueOf(pairs, k) == (CHOOSE p \in pairs : p[1] = k)[2]
Range(s) == {s[i] : i \in 1..Len(s)}

(* common.Marshal: the fields of the payload in declaration order *)
Marshal(obj) ==
    LET present(k) == HasKey(obj, k)
        keys == SelectSeq(KeyOrder, present)
    IN  [i \in 1..Len(keys) |-> <<keys[i], ValueOf(obj, keys[i])>>]

(* relaycommon.ApplyParamOverride: set every overridden key in the *)
(* serialized body, replacing a present key in place and appending an *)
(* absent one *)
ApplyParamOverride(jsonData, override) ==
    LET replaced == [i \in 1..Len(jsonData) |->
                        IF HasKey(override, jsonData[i][1])
                        THEN <<jsonData[i][1], ValueOf(override, jsonData[i][1])>>
                        ELSE jsonData[i]]
        absent(k) == HasKey(override, k) /\ ~HasKey(Range(jsonData), k)
        added == SelectSeq(KeyOrder, absent)
    IN  replaced \o [i \in 1..Len(added) |-> <<added[i], ValueOf(override, added[i])>>]

ParamOverrides == { {}, {<<"size", "512x512">>, <<"user", "u1">>} }

(* Raw inbound bodies: the second one is not in serialization order. *)
InboundBodies ==
    { << <<"model", "dall-e-3">> >>,
      << <<"size", "256x256">>, <<"model", "dall-e-3">> >> }

(* What an adapter's ConvertImageRequest may return for a request: a raw *)
(* byte buffer, a payload that serializes, or one that does not. *)
NoConverted == [kind |-> "nil", buf |-> <<>>, obj |-> {}, marshalable |-> TRUE]
PayloadOf(r) ==
    {<<"model", r.Model>>, <<"n", ToString(r.N)>>}
      \cup (IF r.Size # "" THEN {<<"size", r.Size>>} ELSE {})
      \cup (IF r.Quality # "" THEN {<<"quality", r.Quality>>} ELSE {})
ConvertedRequests(r) ==
    { [kind |-> "buffer", buf |-> << <<"prompt", "p">> >>, obj |-> {},
       marshalable |-> TRUE] }
      \cup { [kind |-> "object", buf |-> <<>>, obj |-> PayloadOf(r),
              marshalable |-> m] : m \in BOOLEAN }

(* --------------------------- multipart form --------------------------- *)
(* A form is the outcome of c.MultipartForm(): err, or File, a set of *)
(* <<field name, sequence of file sizes>> pairs with distinct names. *)
NoForm == [err |-> FALSE, File |-> {}]
Forms ==
    { [err |-> TRUE, File |-> {}],
      [err |-> TRUE, File |-> {<<FieldImage, <<512>> >>}],
      [err |-> FALSE, File |-> {}],
      [err |-> FALSE, File |-> {<<FieldMask, <<5>> >>}],
      [err |-> FALSE, File |-> {<<FieldImage, <<512>> >>}],
      [err |-> FALSE, File |-> {<<FieldImage, <<0>> >>}],
      [err |-> FALSE, File |-> {<<FieldImage, <<100>> >>, <<FieldImageArr, <<200, 300>> >>}],
      [err |-> FALSE, File |-> {<<FieldImage, <<>> >>, <<FieldImageArr, <<2048>> >>}],
      [err |-> FALSE, File |-> {<<FieldImage0, <<1024>> >>, <<FieldImage1, <<1280>> >>}],
      [err |-> FALSE, File |-> {<<FieldImage, <<3 * KB * KB>> >>}] }

RECURSIVE SumSeq(_)
SumSeq(s) == IF s = <<>> THEN 0 ELSE Head(s) + SumSeq(Tail(s))

(* the files of every field of the set, appended in some iteration order *)
RECURSIVE AppendAll(_)
AppendAll(fields) ==
    IF fields = {} THEN <<>>
    ELSE LET f == CHOOSE p \in fields : TRUE
         IN  f[2] \o AppendAll(fields \ {f})

FilesOf(File, name) == IF HasKey(File, name) THEN ValueOf(File, name) ELSE <<>>

(* fmt.Sprintf("%.1f", float64(total)/unit): one decimal, ties to even *)
FormatOneDecimal(total, unit) ==
    LET q == (total * 10) \div unit
        r == (total * 10) % unit
        tenths == IF 2 * r > unit \/ (2 * r = unit /\ q % 2 = 1) THEN q + 1 ELSE q
    IN  ToString(tenths \div 10) \o "." \o ToString(tenths % 10)

(* mutant: the thresholds are inclusive *)
FormatSizeInclusive(totalSize) ==
    IF totalSize > 0
    THEN IF totalSize <= KB THEN ToString(totalSize) \o " B"
         ELSE IF totalSize <= KB * KB THEN FormatOneDecimal(totalSize, KB) \o " KB"
         ELSE FormatOneDecimal(totalSize, KB * KB) \o " MB"
    ELSE ""

(* lines 200-208 *)
FormatSize(totalSize) ==
    IF totalSize > 0
    THEN IF totalSize < KB THEN ToString(totalSize) \o " B"
         ELSE IF totalSize < KB * KB THEN FormatOneDecimal(totalSize, KB) \o " KB"
         ELSE FormatOneDecimal(totalSize, KB * KB) \o " MB"
    ELSE ""

(* mutant: "image[]" is looked up before "image" *)
SelectImageFilesArrFirst(File) ==
    IF Len(FilesOf(File, FieldImageArr)) > 0 THEN FilesOf(File, FieldImageArr)
    ELSE IF Len(FilesOf(File, FieldImage)) > 0 THEN FilesOf(File, FieldImage)
    ELSE AppendAll({p \in File : HasPrefix(p[1], ImagePrefix) /\ Len(p[2]) > 0})

(* lines 168-185 *)
SelectImageFiles(File) ==
    IF Len(FilesOf(File, FieldImage)) > 0 THEN FilesOf(File, FieldImage)
    ELSE IF Len(FilesOf(File, FieldImageArr)) > 0 THEN FilesOf(File, FieldImageArr)
    ELSE AppendAll({p \in File : HasPrefix(p[1], ImagePrefix) /\ Len(p[2]) > 0})

(* mutant: the error of c.MultipartForm() is not checked *)
getImageCountAndSizeInfoUnchecked(f) ==
    LET imageFiles == SelectImageFiles(f.File)
    IN  IF Len(imageFiles) = 0 THEN <<0, "">>
        ELSE <<Len(imageFiles), FormatSize(SumSeq(imageFiles))>>

(* getImageCountAndSizeInfo: <<count, size string>> *)
getImageCountAndSizeInfo(f) ==
    IF f.err THEN <<0, "">>
    ELSE LET imageFiles == SelectImageFiles(f.File)
         IN  IF Len(imageFiles) = 0 THEN <<0, "">>
             ELSE <<Len(imageFiles), FormatSize(SumSeq(imageFiles))>>

(* ------------------------------- state -------------------------------- *)
VARIABLES
    pc,                    \* the stage ImageHelper is about to run
    info,                  \* *relaycommon.RelayInfo
    globalPassThrough,     \* GetGlobalSettings().PassThroughRequestEnabled
    request,               \* the deep copy of the inbound request
    adaptor,               \* the adapter GetAdaptor returned
    convertedRequest,      \* what ConvertImageRequest returned
    jsonData,              \* the serialized payload
    requestBody,           \* the body built for transport
    statusCodeMappingStr,  \* c.GetString("status_code_mapping")
    httpResp,              \* the raw upstream response
    usage,                 \* the usage DoResponse returned
    newAPIError,           \* the value ImageHelper returns
    result,                \* "running", "ok", "error" or "panic"
    failStage,             \* the stage that returned the error
    calls,                 \* collaborators invoked so far, in order
    sentBodies,            \* the bodies handed to adaptor.DoRequest
    resetCalls,            \* the mappings handed to service.ResetStatusCode
    quotaCalls,            \* the arguments of every postConsumeQuota call
    form,                  \* the multipart form of the inbound request
    inboundBody,           \* the raw body of the inbound request
    entryIsStream,         \* info.IsStream when ImageHelper was entered
    adapterUsage,          \* the usage as DoResponse returned it
    quality,               \* the quality tier of the log line
    imageCount,            \* what getImageCountAndSizeInfo returned: the count
    imageSizeInfo,         \* ... and the size string
    doResponseArgs         \* the responses handed to adaptor.DoResponse

vars == <<pc, info, globalPassThrough, request, adaptor, convertedRequest,
          jsonData, requestBody, statusCodeMappingStr, httpResp, usage,
          newAPIError, result, failStage, calls, sentBodies, resetCalls,
          quotaCalls, form, inboundBody, entryIsStream, adapterUsage,
          quality, imageCount, imageSizeInfo, doResponseArgs>>

NoResp == [present |-> FALSE, StatusCode |-> 0, ContentType |-> <<>>]
NoUsage == [present |-> FALSE, PromptTokens |-> 0, TotalTokens |-> 0]

RegisteredApiType == 0
UnknownApiType == 99
GetAdaptor(apiType) == IF apiType = RegisteredApiType THEN "openai" ELSE "nil"

Init ==
    /\ pc = "init_channel_meta"
    /\ info \in [Request : ImageRequests \cup {OtherRequest},
                 IsStream : BOOLEAN,
                 ApiType : {RegisteredApiType},
                 PassThroughBodyEnabled : {FALSE},
                 ParamOverride : {{}}]
    /\ globalPassThrough \in BOOLEAN
    /\ inboundBody \in InboundBodies
    /\ entryIsStream = info.IsStream
    /\ adapterUsage = NoUsage
    /\ request = NoRequest
    /\ adaptor = "nil"
    /\ convertedRequest = NoConverted
    /\ jsonData = <<>>
    /\ requestBody = <<>>
    /\ statusCodeMappingStr = {}
    /\ httpResp = NoResp
    /\ usage = NoUsage
    /\ newAPIError = NoError
    /\ result = "running"
    /\ failStage = ""
    /\ calls = <<>>
    /\ sentBodies = <<>>
    /\ resetCalls = <<>>
    /\ quotaCalls = <<>>
    /\ form = NoForm
    /\ quality = ""
    /\ imageCount = 0
    /\ imageSizeInfo = ""
    /\ doResponseArgs = <<>>

locals == <<request, adaptor, convertedRequest, jsonData, requestBody,
            statusCodeMappingStr, httpResp, usage>>
history == <<sentBodies, resetCalls, quotaCalls>>
inputs == <<globalPassThrough, inboundBody, entryIsStream>>
acct == <<quality, imageCount, imageSizeInfo>>

(* mutant: a transport failure is recorded but the handler goes on *)
ReturnFallsThrough(stage, e) ==
    /\ pc' = (IF stage = "do_request" THEN "response_intake" ELSE "done")
    /\ result' = "error"
    /\ newAPIError' = e
    /\ failStage' = stage

(* return e from the stage named stage *)
Return(stage, e) ==
    /\ pc' = "done"
    /\ result' = "error"
    /\ newAPIError' = e
    /\ failStage' = stage

Continue(next) ==
    /\ pc' = next
    /\ UNCHANGED <<result, newAPIError, failStage>>

(* ------------------------- ImageHelper, by stage ----------------------- *)
(* mutant: the adapter is resolved before the request is copied and mapped *)
NextStageRegistryFirst(stage) ==
    CASE stage = "type_check" -> "get_adaptor"
      [] stage = "get_adaptor" -> "deep_copy"
      [] stage = "deep_copy" -> "model_mapped"
      [] stage = "model_mapped" -> "build_body"

(* lines 30-51: the order of the statements up to the adapter's Init *)
NextStage(stage) ==
    CASE stage = "type_check" -> "deep_copy"
      [] stage = "deep_copy" -> "model_mapped"
      [] stage = "model_mapped" -> "get_adaptor"
      [] stage = "get_adaptor" -> "build_body"

(* mutant: the original request is handed to ModelMappedHelper *)
MappedObjectOriginal == "info.Request"

(* line 42: the object handed to ModelMappedHelper *)
MappedObject == "request"

(* line 28: the channel's settings are loaded into info *)
InitChannelMeta ==
    /\ pc = "init_channel_meta"
    /\ \E a \in {RegisteredApiType, UnknownApiType}, p \in BOOLEAN, o \in ParamOverrides :
          info' = [info EXCEPT !.ApiType = a, !.PassThroughBodyEnabled = p,
                               !.ParamOverride = o]
    /\ Continue("type_check")
    /\ UNCHANGED <<inputs, locals, calls, history, form, adapterUsage, acct, doResponseArgs>>

(* lines 30-33 *)
TypeCheck ==
    /\ pc = "type_check"
    /\ IF info.Request.kind # "ImageRequest"
       THEN Return("type_check",
                   NewErrorWithStatusCode("invalid_request", StatusBadRequest, TRUE))
       ELSE Continue(NextStage("type_check"))
    /\ UNCHANGED <<info, inputs, locals, calls, history, form, adapterUsage, acct, doResponseArgs>>

(* lines 35-38 *)
DeepCopyStep ==
    /\ pc = "deep_copy"
    /\ calls' = Append(calls, "DeepCopy")
    /\ \E err \in BOOLEAN :
          IF err
          THEN /\ Return("deep_copy", NewError("invalid_request", TRUE))
               /\ UNCHANGED request
          ELSE /\ request' = DeepCopy(info.Request)
               /\ Continue(NextStage("deep_copy"))
    /\ UNCHANGED <<info, inputs, adaptor, convertedRequest, jsonData,
                   requestBody, statusCodeMappingStr, httpResp, usage, history, form, adapterUsage, acct, doResponseArgs>>

(* lines 42-45 *)
ModelMapped ==
    /\ pc = "model_mapped"
    /\ calls' = Append(calls, "ModelMappedHelper")
    /\ \E outcome \in {"err", "mapped", "unmapped"} :
          IF outcome = "err"
          THEN /\ Return("model_mapped", NewError("channel:model_mapped_error", TRUE))
               /\ UNCHANGED <<request, info>>
          ELSE /\ IF MappedObject = "request"
                  THEN /\ request' = ModelMappedHelper(request, outcome = "mapped")
                       /\ UNCHANGED info
                  ELSE /\ info' = [info EXCEPT !.Request =
                                      ModelMappedHelper(info.Request, outcome = "mapped")]
                       /\ UNCHANGED request
               /\ Continue(NextStage("model_mapped"))
    /\ UNCHANGED <<inputs, adaptor, convertedRequest, jsonData,
                   requestBody, statusCodeMappingStr, httpResp, usage, history, form, adapterUsage, acct, doResponseArgs>>

(* mutant: the adapter is not initialized *)
AdaptorInitSkipped(log) == log

(* line 51 *)
AdaptorInit(log) == Append(log, "Init")

(* lines 47-51 *)
GetAdaptorStep ==
    /\ pc = "get_adaptor"
    /\ adaptor' = GetAdaptor(info.ApiType)
    /\ IF adaptor' = "nil"
       THEN /\ Return("get_adaptor", NewError("invalid_api_type", TRUE))
            /\ calls' = Append(calls, "GetAdaptor")
       ELSE /\ calls' = AdaptorInit(Append(calls, "GetAdaptor"))
            /\ Continue(NextStage("get_adaptor"))
    /\ UNCHANGED <<info, inputs, request, convertedRequest, jsonData,
                   requestBody, statusCodeMappingStr, httpResp, usage, history, form, adapterUsage, acct, doResponseArgs>>

(* mutant: the per-channel flag is ignored *)
PassThroughGlobalOnly(global, channel) == global

(* line 55 *)
PassThroughEnabled(global, channel) == global \/ channel

(* lines 55-60: the passthrough branch *)
ReadRequestBody ==
    /\ pc = "build_body"
    /\ PassThroughEnabled(globalPassThrough, info.PassThroughBodyEnabled)
    /\ calls' = Append(calls, "GetRequestBody")
    /\ \/ /\ Return("read_body",
                    NewErrorWithStatusCode("read_request_body_failed", StatusBadRequest, TRUE))
          /\ UNCHANGED requestBody
       \/ /\ requestBody' = inboundBody
          /\ Continue("do_request")
    /\ UNCHANGED <<info, inputs, request, adaptor, convertedRequest,
                   jsonData, statusCodeMappingStr, httpResp, usage, history, form, adapterUsage, acct, doResponseArgs>>

(* line 64: the error returned when the adapter's conversion fails *)
ConvertFailedError == NewError("convert_request_failed", FALSE)

(* lines 62-65: the conversion branch *)
ConvertImageRequest ==
    /\ pc = "build_body"
    /\ ~PassThroughEnabled(globalPassThrough, info.PassThroughBodyEnabled)
    /\ calls' = Append(calls, "ConvertImageRequest")
    /\ \/ /\ Return("convert", ConvertFailedError)
          /\ UNCHANGED convertedRequest
       \/ /\ convertedRequest' \in ConvertedRequests(request)
          /\ Continue("switch_converted")
    /\ UNCHANGED <<info, inputs, request, adaptor, jsonData, requestBody,
                   statusCodeMappingStr, httpResp, usage, history, form, adapterUsage, acct, doResponseArgs>>

(* lines 67-69: a *bytes.Buffer payload is the body *)
BufferBody ==
    /\ pc = "switch_converted"
    /\ convertedRequest.kind = "buffer"
    /\ requestBody' = convertedRequest.buf
    /\ Continue("do_request")
    /\ UNCHANGED <<info, inputs, request, adaptor, convertedRequest,
                   jsonData, statusCodeMappingStr, httpResp, usage, calls, history, form, adapterUsage, acct, doResponseArgs>>

(* lines 70-74 *)
MarshalStep ==
    /\ pc = "switch_converted"
    /\ convertedRequest.kind # "buffer"
    /\ calls' = Append(calls, "Marshal")
    /\ IF ~convertedRequest.marshalable
       THEN /\ Return("marshal", NewError("convert_request_failed", TRUE))
            /\ UNCHANGED jsonData
       ELSE /\ jsonData' = Marshal(convertedRequest.obj)
            /\ Continue("param_override")
    /\ UNCHANGED <<info, inputs, request, adaptor, convertedRequest,
                   requestBody, statusCodeMappingStr, httpResp, usage, history, form, adapterUsage, acct, doResponseArgs>>

(* mutant: the override is never applied *)
HasParamOverrideNever(override) == FALSE

(* line 77 *)
HasParamOverride(override) == Cardinality(override) > 0

(* lines 77-88 *)
ParamOverrideStep ==
    /\ pc = "param_override"
    /\ IF HasParamOverride(info.ParamOverride)
       THEN /\ calls' = Append(calls, "ApplyParamOverride")
            /\ \/ /\ Return("param_override",
                            NewError("channel:param_override_invalid", TRUE))
                  /\ UNCHANGED <<jsonData, requestBody>>
               \/ /\ jsonData' = ApplyParamOverride(jsonData, info.ParamOverride)
                  /\ requestBody' = jsonData'
                  /\ Continue("do_request")
       ELSE /\ requestBody' = jsonData
            /\ Continue("do_request")
            /\ UNCHANGED <<calls, jsonData>>
    /\ UNCHANGED <<info, inputs, request, adaptor, convertedRequest,
                   statusCodeMappingStr, httpResp, usage, history, form, adapterUsage, acct, doResponseArgs>>

(* what adaptor.DoRequest may return besides an error: no response (nil) *)
(* or a response with a status code and a Content-Type header *)
Responses ==
    {NoResp} \cup [present : {TRUE}, StatusCode : UpstreamStatusCodes,
                   ContentType : ContentTypes]

(* lines 91-101 *)
DoRequest ==
    /\ pc = "do_request"
    /\ statusCodeMappingStr' \in StatusCodeMappings
    /\ calls' = Append(calls, "DoRequest")
    /\ sentBodies' = Append(sentBodies, requestBody)
    /\ \/ /\ Return("do_request",
                    NewErrorWithStatusCode("do_request_failed",
                                           StatusInternalServerError, FALSE))
          /\ UNCHANGED httpResp
       \/ /\ httpResp' \in Responses
          /\ Continue("response_intake")
    /\ UNCHANGED <<info, inputs, request, adaptor, convertedRequest,
                   jsonData, requestBody, usage, resetCalls, quotaCalls, form, adapterUsage, acct, doResponseArgs>>

(* mutant: the flag is overwritten, not or-ed *)
StreamFlagOverwrite(isStream, contentType) ==
    HasPrefix(contentType, EventStreamPrefix)

(* mutant: the header is compared for equality *)
StreamFlagExact(isStream, contentType) ==
    isStream \/ contentType = EventStreamPrefix

(* line 105 *)
StreamFlag(isStream, contentType) ==
    isStream \/ HasPrefix(contentType, EventStreamPrefix)

(* mutant: only a status of 400 and above is a failure *)
IsNonSuccessFrom400(statusCode) == statusCode >= StatusBadRequest

(* mutant: every 2xx status counts as success *)
IsNonSuccessNot2xx(statusCode) == statusCode < 200 \/ statusCode >= 300

(* line 106 *)
IsNonSuccess(statusCode) == statusCode # StatusOK

(* lines 102-112 *)
ResponseIntake ==
    /\ pc = "response_intake"
    /\ IF httpResp.present
       THEN /\ info' = [info EXCEPT !.IsStream = StreamFlag(info.IsStream, httpResp.ContentType)]
            /\ IF IsNonSuccess(httpResp.StatusCode)
               THEN /\ calls' = calls \o <<"RelayErrorHandler", "ResetStatusCode">>
                    /\ resetCalls' = Append(resetCalls, statusCodeMappingStr)
                    /\ Return("upstream_status",
                              ResetStatusCode(RelayErrorHandler(httpResp),
                                              statusCodeMappingStr))
               ELSE /\ Continue("do_response")
                    /\ UNCHANGED <<calls, resetCalls>>
       ELSE /\ Continue("do_response")
            /\ UNCHANGED <<info, calls, resetCalls>>
    /\ UNCHANGED <<inputs, locals, sentBodies, quotaCalls, form, adapterUsage, acct, doResponseArgs>>

(* what adaptor.DoResponse may return: an error, a usage, or neither *)
DoResponseErrors ==
    {NewErrorWithStatusCode("bad_response", c, FALSE) : c \in {StatusInternalServerError, 429}}
Usages ==
    [present : {TRUE}, PromptTokens : 0..MaxTokens, TotalTokens : 0..MaxTokens]

(* mutant: the reconciliation failure is remapped with no mapping *)
DoResponseMappingEmpty(mapping) == {}

(* lines 116-117: the mapping handed to ResetStatusCode *)
DoResponseMapping(mapping) == mapping

(* lines 114-119 *)
DoResponse ==
    /\ pc = "do_response"
    /\ doResponseArgs' = Append(doResponseArgs, httpResp)
    /\ \/ \E e \in DoResponseErrors :
            /\ calls' = calls \o <<"DoResponse", "ResetStatusCode">>
            /\ resetCalls' = Append(resetCalls, DoResponseMapping(statusCodeMappingStr))
            /\ Return("do_response",
                      ResetStatusCode(e, DoResponseMapping(statusCodeMappingStr)))
            /\ UNCHANGED <<usage, adapterUsage>>
       \/ /\ usage' \in Usages \cup {NoUsage}
          /\ adapterUsage' = usage'
          /\ calls' = Append(calls, "DoResponse")
          /\ Continue("account")
          /\ UNCHANGED resetCalls
    /\ UNCHANGED <<info, inputs, request, adaptor, convertedRequest,
                   jsonData, requestBody, statusCodeMappingStr, httpResp,
                   sentBodies, quotaCalls, form, acct>>

(* mutant: the prompt-token fallback depends on the total-token test *)
NormalizeUsageNested(u, n) ==
    IF u.TotalTokens = 0
    THEN [u EXCEPT !.TotalTokens = n,
                   !.PromptTokens = IF u.PromptTokens = 0 THEN n ELSE u.PromptTokens]
    ELSE u

(* lines 121-126 *)
NormalizeUsage(u, n) ==
    [u EXCEPT !.TotalTokens = IF u.TotalTokens = 0 THEN n ELSE u.TotalTokens,
              !.PromptTokens = IF u.PromptTokens = 0 THEN n ELSE u.PromptTokens]

(* mutant: the quality is compared without regard to case *)
QualityOfAnyCase(r) == IF r.Quality \in {"hd", "HD"} THEN "hd" ELSE "standard"

(* lines 128-131 *)
QualityOf(r) == IF r.Quality = "hd" THEN "hd" ELSE "standard"

(* mutant: the size suffix is appended whenever images were counted *)
LogContentAlwaysSuffix(r, f) ==
    IF r.Size # ""
    THEN LET base == "size " \o r.Size \o ", quality " \o QualityOf(r)
                       \o ", count " \o ToString(r.N)
             meta == getImageCountAndSizeInfo(f)
         IN  IF meta[1] > 0
             THEN base \o ", input images " \o ToString(meta[1])
                       \o " (" \o meta[2] \o ")"
             ELSE base
    ELSE ""

(* lines 136-148 *)
LogContent(r, f) ==
    IF r.Size # ""
    THEN LET base == "size " \o r.Size \o ", quality " \o QualityOf(r)
                       \o ", count " \o ToString(r.N)
             meta == getImageCountAndSizeInfo(f)
         IN  IF meta[1] > 0
             THEN base \o ", input images " \o ToString(meta[1])
                       \o (IF meta[2] # "" THEN " (" \o meta[2] \o ")" ELSE "")
             ELSE base
    ELSE ""

(* mutant: the quota call is dropped *)
postConsumeQuotaSkipped(log, u, logContent) == log

(* line 150 *)
postConsumeQuota(log, u, logContent) ==
    Append(log, [usage |-> u, logContent |-> logContent])

(* lines 121-151; a usage that is not a *dto.Usage panics at line 121 *)
Account ==
    /\ pc = "account"
    /\ pc' = "done"
    /\ IF ~usage.present
       THEN /\ result' = "panic"
            /\ UNCHANGED <<usage, form, quotaCalls, calls, acct>>
       ELSE /\ usage' = NormalizeUsage(usage, request.N)
            /\ quality' = QualityOf(request)
            /\ IF request.Size # ""
               THEN /\ form' \in Forms
                    /\ imageCount' = getImageCountAndSizeInfo(form')[1]
                    /\ imageSizeInfo' = getImageCountAndSizeInfo(form')[2]
                    /\ calls' = calls \o <<"getImageCountAndSizeInfo", "postConsumeQuota">>
               ELSE /\ UNCHANGED <<form, imageCount, imageSizeInfo>>
                    /\ calls' = Append(calls, "postConsumeQuota")
            /\ quotaCalls' = postConsumeQuota(quotaCalls, usage', LogContent(request, form'))
            /\ result' = "ok"
    /\ UNCHANGED <<info, inputs, request, adaptor, convertedRequest,
                   jsonData, requestBody, statusCodeMappingStr, httpResp,
                   newAPIError, failStage, sentBodies, resetCalls, adapterUsage,
                   doResponseArgs>>

Next ==
    \/ InitChannelMeta
    \/ TypeCheck
    \/ DeepCopyStep
    \/ ModelMapped
    \/ GetAdaptorStep
    \/ ReadRequestBody
    \/ ConvertImageRequest
    \/ BufferBody
    \/ MarshalStep
    \/ ParamOverrideStep
    \/ DoRequest
    \/ ResponseIntake
    \/ DoResponse
    \/ Account

Spec == Init /\ [][Next]_vars

(* ------------- getImageCountAndSizeInfo on its own inputs -------------- *)
FormFieldNames == {FieldImage, FieldImageArr, FieldImage0, FieldImage1, FieldMask}
FileLists == {<<>>, <<100>>, <<200, 300>>}
BoundarySizes ==
    {0, 1, 512, KB - 1, KB, 1280, 2 * KB, KB * KB - 1, KB * KB, 3 * KB * KB}
FormFiles ==
    {{<<n, lists[n]>> : n \in present} :
        present \in SUBSET FormFieldNames, lists \in [FormFieldNames -> FileLists]}
      \cup {{<<FieldImage, <<t>> >>} : t \in BoundarySizes}
      \cup {{<<FieldImage0, <<a>> >>, <<FieldImage1, <<b>> >>} : a, b \in BoundarySizes}
AllForms ==
    [err : {FALSE}, File : FormFiles]
      \cup [err : {TRUE}, File : {{}, {<<FieldImage, <<512>> >>}}]

InitForm ==
    /\ pc = "form_call"
    /\ form \in AllForms
    /\ info = [Request |-> OtherRequest, IsStream |-> FALSE,
               ApiType |-> RegisteredApiType, PassThroughBodyEnabled |-> FALSE,
               ParamOverride |-> {}]
    /\ globalPassThrough = FALSE
    /\ inboundBody = <<>>
    /\ entryIsStream = FALSE
    /\ adapterUsage = NoUsage
    /\ request = NoRequest
    /\ adaptor = "nil"
    /\ convertedRequest = NoConverted
    /\ jsonData = <<>>
    /\ requestBody = <<>>
    /\ statusCodeMappingStr = {}
    /\ httpResp = NoResp
    /\ usage = NoUsage
    /\ newAPIError = NoError
    /\ result = "running"
    /\ failStage = ""
    /\ calls = <<>>
    /\ sentBodies = <<>>
    /\ resetCalls = <<>>
    /\ quotaCalls = <<>>
    /\ quality = ""
    /\ imageCount = 0
    /\ imageSizeInfo = ""
    /\ doResponseArgs = <<>>

(* lines 155-211: one call of getImageCountAndSizeInfo *)
CallGetImageCountAndSizeInfo ==
    /\ pc = "form_call"
    /\ pc' = "form_done"
    /\ imageCount' = getImageCountAndSizeInfo(form)[1]
    /\ imageSizeInfo' = getImageCountAndSizeInfo(form)[2]
    /\ calls' = Append(calls, "getImageCountAndSizeInfo")
    /\ UNCHANGED <<info, inputs, locals, history, form, adapterUsage, quality,
                   newAPIError, result, failStage, doResponseArgs>>

NextForm == CallGetImageCountAndSizeInfo

SpecForm == InitForm /\ [][NextForm]_vars

(* ------------------------------ properties ---------------------------- *)
Count(op) == Cardinality({i \in 1..Len(calls) : calls[i] = op})
Called(op) == Count(op) > 0
Before(opA, opB) ==
    \A i \in 1..Len(calls) :
        calls[i] = opB => \E j \in 1..(i - 1) : calls[j] = opA
AdapterCapabilities == {"ConvertImageRequest", "DoRequest", "DoResponse"}
PassThroughOn == globalPassThrough \/ info.PassThroughBodyEnabled
PastIntake == pc \in {"do_response", "account", "done"} /\ Called("DoRequest")

(* C1: postConsumeQuota is invoked exactly once when ImageHelper returns *)
(* nil and never when it returns an APIError (nor before it returns). *)
C1_QuotaOnceOnSuccessOnly ==
    /\ result = "ok" => Len(quotaCalls) = 1 /\ Count("postConsumeQuota") = 1
    /\ result # "ok" => Len(quotaCalls) = 0 /\ Count("postConsumeQuota") = 0
    /\ result = "ok" <=> (pc = "done" /\ newAPIError = NoError /\ usage.present)
C1_Witness ==
    /\ result = "ok"
    /\ Len(quotaCalls) = 1
    /\ httpResp.present

(* C2: with passthrough enabled (global or per-channel flag) the body *)
(* handed to DoRequest is the inbound body, ConvertImageRequest is never *)
(* invoked and no parameter override is applied. *)
C2_PassThroughVerbatim ==
    (pc # "init_channel_meta" /\ PassThroughOn) =>
        /\ ~Called("ConvertImageRequest")
        /\ ~Called("Marshal")
        /\ ~Called("ApplyParamOverride")
        /\ \A i \in 1..Len(sentBodies) : sentBodies[i] = inboundBody
C2_Witness ==
    /\ ~globalPassThrough
    /\ info.PassThroughBodyEnabled
    /\ info.ParamOverride # {}
    /\ Len(sentBodies) = 1
    /\ sentBodies[1] = inboundBody
    /\ inboundBody # Marshal(Range(inboundBody))

(* C3 as stated: with passthrough disabled and a non-empty override, the *)
(* body handed to DoRequest has the override applied after serialization, *)
(* whatever payload ConvertImageRequest returned. *)
C3_OverrideWhateverPayload ==
    (~PassThroughOn /\ info.ParamOverride # {} /\ Len(sentBodies) > 0) =>
        /\ Count("ApplyParamOverride") = 1
        /\ Before("Marshal", "ApplyParamOverride")

(* C3 amended: with passthrough disabled, a non-empty override and a *)
(* converted payload that is not a raw byte buffer, the body handed to *)
(* DoRequest is the override applied to the serialized payload, and the *)
(* override is applied once, after serialization; a raw byte buffer is *)
(* sent as it is, with no override applied. *)
C3_OverrideAfterSerialization ==
    /\ (~PassThroughOn /\ info.ParamOverride # {} /\ Len(sentBodies) > 0
          /\ convertedRequest.kind # "buffer") =>
          /\ Count("Marshal") = 1
          /\ Count("ApplyParamOverride") = 1
          /\ Before("Marshal", "ApplyParamOverride")
          /\ Before("ApplyParamOverride", "DoRequest")
          /\ sentBodies[1] =
                ApplyParamOverride(Marshal(convertedRequest.obj), info.ParamOverride)
          /\ \A p \in info.ParamOverride : p \in Range(sentBodies[1])
    /\ (Len(sentBodies) > 0 /\ convertedRequest.kind = "buffer") =>
          /\ ~Called("ApplyParamOverride")
          /\ sentBodies[1] = convertedRequest.buf
    /\ Before("Marshal", "ApplyParamOverride")
C3_Witness ==
    /\ ~PassThroughOn
    /\ info.ParamOverride # {}
    /\ convertedRequest.kind = "object"
    /\ Len(sentBodies) = 1
    /\ <<"user", "u1">> \in Range(sentBodies[1])
    /\ ~HasKey(convertedRequest.obj, "user")
    /\ <<"size", "512x512">> \in Range(sentBodies[1])
    /\ <<"size", "1024x1024">> \in convertedRequest.obj

(* C4: on success the usage handed to quota consumption has TotalTokens = *)
(* N when the adapter's TotalTokens is 0, and independently PromptTokens = *)
(* N when the adapter's PromptTokens is 0; a non-zero field is unchanged. *)
C4_UsageFallback ==
    result = "ok" =>
        /\ quotaCalls[1].usage.TotalTokens =
              (IF adapterUsage.TotalTokens = 0 THEN request.N
               ELSE adapterUsage.TotalTokens)
        /\ quotaCalls[1].usage.PromptTokens =
              (IF adapterUsage.PromptTokens = 0 THEN request.N
               ELSE adapterUsage.PromptTokens)
C4_Witness ==
    /\ result = "ok"
    /\ request.N = 1
    /\ adapterUsage.TotalTokens # 0
    /\ adapterUsage.PromptTokens = 0
    /\ quotaCalls[1].usage.PromptTokens = 1

(* C5: whenever quota consumption is invoked, the usage's prompt-token and *)
(* total-token fields are both non-zero. *)
C5_QuotaUsageNonZero ==
    \A i \in 1..Len(quotaCalls) :
        /\ quotaCalls[i].usage.PromptTokens # 0
        /\ quotaCalls[i].usage.TotalTokens # 0

(* C6: once transport has returned a response whose Content-Type is an *)
(* event stream, info.IsStream is true, whatever it was at entry and *)
(* whatever the response's status code. *)
EventStreamTypes == {CtEventStream, CtEventStreamCharset}
C6_StreamFlagForced ==
    (PastIntake /\ httpResp.present /\ httpResp.ContentType \in EventStreamTypes)
        => info.IsStream
C6_Witness ==
    /\ PastIntake
    /\ ~entryIsStream
    /\ httpResp.present
    /\ httpResp.ContentType = CtEventStreamCharset
    /\ httpResp.StatusCode # StatusOK
    /\ info.IsStream

(* C7: a response with a status code other than 200 makes ImageHelper *)
(* return the error interpreter's error, and DoResponse is never invoked. *)
C7_NonSuccessSkipsDoResponse ==
    (PastIntake /\ httpResp.present /\ httpResp.StatusCode # 200) =>
        /\ result = "error"
        /\ failStage = "upstream_status"
        /\ Called("RelayErrorHandler")
        /\ newAPIError.code = RelayErrorHandler(httpResp).code
        /\ newAPIError =
              ResetStatusCode(RelayErrorHandler(httpResp), statusCodeMappingStr)
        /\ ~Called("DoResponse")
C7_Witness ==
    /\ pc = "done"
    /\ httpResp.present
    /\ httpResp.StatusCode = 201
    /\ result = "error"
    /\ ~Called("DoResponse")

(* C8: when an adapter is resolved, Init is called exactly once and before *)
(* ConvertImageRequest, DoRequest and DoResponse; with no adapter for the *)
(* API type ImageHelper fails with invalid_api_type and no adapter *)
(* capability is invoked. *)
C8_InitOnceAndFirst ==
    /\ adaptor # "nil" => Count("Init") = 1
    /\ \A op \in AdapterCapabilities : Before("Init", op)
    /\ (Called("GetAdaptor") /\ info.ApiType = UnknownApiType) =>
          /\ result = "error"
          /\ newAPIError.code = "invalid_api_type"
          /\ ~Called("Init")
          /\ \A op \in AdapterCapabilities : ~Called(op)
C8_Witness ==
    /\ result = "ok"
    /\ Count("Init") = 1
    /\ \A op \in AdapterCapabilities : Called(op)

(* C9: every failure detected before transport is returned flagged *)
(* non-retryable (skip-retry). *)
LocalStages ==
    {"type_check", "deep_copy", "model_mapped", "get_adaptor", "read_body",
     "convert", "marshal", "param_override"}
C9_LocalFailuresSkipRetry ==
    (result = "error" /\ failStage \in LocalStages) => newAPIError.skipRetry

(* C10: ResetStatusCode is applied exactly once, to the returned error and *)
(* with the mapping read from the context, when the failure is an upstream *)
(* non-success status or a DoResponse failure, and never otherwise. *)
RemappedStages == {"upstream_status", "do_response"}
C10_RemapOnlyUpstreamFailures ==
    IF result = "error" /\ failStage \in RemappedStages
    THEN /\ Count("ResetStatusCode") = 1
         /\ resetCalls = <<statusCodeMappingStr>>
         /\ \A p \in statusCodeMappingStr : newAPIError.StatusCode # p[1]
    ELSE /\ Count("ResetStatusCode") = 0
         /\ resetCalls = <<>>
C10_Witness ==
    /\ result = "error"
    /\ failStage = "do_response"
    /\ statusCodeMappingStr # {}
    /\ resetCalls = <<statusCodeMappingStr>>
    /\ newAPIError.StatusCode = StatusInternalServerError

(* the fields the precedence of the claim selects, and their parts *)
RECURSIVE TotalParts(_)
TotalParts(fields) ==
    IF fields = {} THEN 0
    ELSE LET f == CHOOSE p \in fields : TRUE
         IN  Len(f[2]) + TotalParts(fields \ {f})
RECURSIVE TotalBytes(_)
TotalBytes(fields) ==
    IF fields = {} THEN 0
    ELSE LET f == CHOOSE p \in fields : TRUE
         IN  SumSeq(f[2]) + TotalBytes(fields \ {f})
WithParts(File, names) == {p \in File : p[1] \in names /\ Len(p[2]) > 0}
PrefixedWithParts(File) ==
    {p \in File : HasPrefix(p[1], ImagePrefix) /\ Len(p[2]) > 0}
Matched(File) ==
    IF WithParts(File, {FieldImage}) # {} THEN WithParts(File, {FieldImage})
    ELSE IF WithParts(File, {FieldImageArr}) # {} THEN WithParts(File, {FieldImageArr})
    ELSE PrefixedWithParts(File)
FormDone == pc = "form_done" /\ ~form.err

(* C11: image parts are selected by first match: "image" with a part, else *)
(* "image[]" with a part, else every field starting with "image[" that has *)
(* a part; with both "image" and "image[]" only "image" counts, with only *)
(* "image[0]" and "image[1]" both are summed, with no match the count is 0 *)
(* and the size string is empty. *)
C11_ImagePrecedence ==
    FormDone =>
        /\ imageCount = TotalParts(Matched(form.File))
        /\ imageSizeInfo =
              (IF Matched(form.File) = {} THEN ""
               ELSE FormatSize(TotalBytes(Matched(form.File))))
        /\ (WithParts(form.File, {FieldImage}) # {}) =>
              imageCount = Len(FilesOf(form.File, FieldImage))
        /\ (WithParts(form.File, {FieldImage, FieldImageArr}) = {}) =>
              imageCount = Len(FilesOf(form.File, FieldImage0))
                             + Len(FilesOf(form.File, FieldImage1))
        /\ (Matched(form.File) = {}) => (imageCount = 0 /\ imageSizeInfo = "")
C11_Witness ==
    /\ FormDone
    /\ FilesOf(form.File, FieldImage) = <<100>>
    /\ FilesOf(form.File, FieldImageArr) = <<200, 300>>
    /\ FilesOf(form.File, FieldImage0) = <<100>>
    /\ imageCount = 1
    /\ imageSizeInfo = "100 B"

(* the one-decimal renderings no further than half a tenth from total/unit *)
NearestTenths(total, unit) ==
    {t \in {(10 * total) \div unit, (10 * total) \div unit + 1} :
        (2 * (t * unit - 10 * total) <= unit) /\ (2 * (10 * total - t * unit) <= unit)}
OneDecimal(t) == ToString(t \div 10) \o "." \o ToString(t % 10)
MatchedTotal == TotalBytes(Matched(form.File))

(* C12 as stated: with image metadata present, a total T < 1024 is *)
(* formatted as the integer byte count with unit "B", for every T >= 0. *)
C12_BytesForEveryTotal ==
    (FormDone /\ imageCount > 0 /\ MatchedTotal < KB) =>
        imageSizeInfo = ToString(MatchedTotal) \o " B"

(* C12 amended: with image metadata present, a total T > 0 is formatted by *)
(* threshold: T < 1024 as the integer byte count with unit "B", 1024 <= T < *)
(* 1024*1024 as T/1024 to one decimal with unit "KB", T >= 1024*1024 as *)
(* T/(1024*1024) to one decimal with unit "MB"; T = 0 gives the empty *)
(* string. *)
C12_SizeFormatting ==
    (FormDone /\ imageCount > 0) =>
        /\ MatchedTotal = 0 => imageSizeInfo = ""
        /\ (0 < MatchedTotal /\ MatchedTotal < KB) =>
              imageSizeInfo = ToString(MatchedTotal) \o " B"
        /\ (KB <= MatchedTotal /\ MatchedTotal < KB * KB) =>
              \E t \in NearestTenths(MatchedTotal, KB) :
                  imageSizeInfo = OneDecimal(t) \o " KB"
        /\ MatchedTotal >= KB * KB =>
              \E t \in NearestTenths(MatchedTotal, KB * KB) :
                  imageSizeInfo = OneDecimal(t) \o " MB"
        /\ MatchedTotal = 512 => imageSizeInfo = "512 B"
        /\ MatchedTotal = 2048 => imageSizeInfo = "2.0 KB"
        /\ MatchedTotal = 3 * 1024 * 1024 => imageSizeInfo = "3.0 MB"
C12_Witness ==
    /\ FormDone
    /\ imageCount = 2
    /\ MatchedTotal = KB
    /\ imageSizeInfo = "1.0 KB"

(* C13: the quality tier of the descriptor is "hd" exactly when the *)
(* request's quality is "hd"; every other value, the empty string *)
(* included, gives "standard". *)
C13_QualityTier ==
    result = "ok" =>
        /\ quality \in {"hd", "standard"}
        /\ quality = "hd" <=> request.Quality = "hd"
        /\ quality = "hd" <=> info.Request.Quality = "hd"
C13_Witness ==
    /\ result = "ok"
    /\ info.Request.Quality = "HD"
    /\ quality = "standard"
    /\ request.Size # ""

(* C14: no step of ImageHelper changes the inbound request info.Request; *)
(* model mapping changes the copy only. *)
C14_OriginalUnchanged == [][info'.Request = info.Request]_vars
C14_Witness ==
    /\ result = "ok"
    /\ request.Model = ModelMapping(info.Request.Model)
    /\ request.Model # info.Request.Model

(* the stage a collaborator belongs to, and the stage a failure came from *)
CallRank(op) ==
    CASE op = "DeepCopy" -> 1
      [] op = "ModelMappedHelper" -> 2
      [] op \in {"GetAdaptor", "Init"} -> 3
      [] op \in {"GetRequestBody", "ConvertImageRequest"} -> 4
      [] op = "Marshal" -> 5
      [] op = "ApplyParamOverride" -> 6
      [] op = "DoRequest" -> 7
      [] op \in {"RelayErrorHandler", "DoResponse", "ResetStatusCode"} -> 8
      [] op \in {"getImageCountAndSizeInfo", "postConsumeQuota"} -> 9
StageRank(stage) ==
    CASE stage = "type_check" -> 0
      [] stage = "deep_copy" -> 1
      [] stage = "model_mapped" -> 2
      [] stage = "get_adaptor" -> 3
      [] stage \in {"read_body", "convert"} -> 4
      [] stage = "marshal" -> 5
      [] stage = "param_override" -> 6
      [] stage = "do_request" -> 7
      [] stage \in {"upstream_status", "do_response"} -> 8

(* C15: a failure is returned where it is detected: once a stage has *)
(* failed no collaborator of a later stage is invoked, and a DoRequest *)
(* failure returns do_request_failed with status 500 without DoResponse. *)
C15_FailFast ==
    result = "error" =>
        /\ \A i \in 1..Len(calls) : CallRank(calls[i]) <= StageRank(failStage)
        /\ quotaCalls = <<>>
        /\ failStage = "do_request" =>
              /\ newAPIError.code = "do_request_failed"
              /\ newAPIError.StatusCode = 500
              /\ ~Called("DoResponse")
              /\ ~Called("RelayErrorHandler")
              /\ doResponseArgs = <<>>
C15_Witness ==
    /\ result = "error"
    /\ failStage = "do_request"
    /\ pc = "done"
    /\ Len(sentBodies) = 1
    /\ newAPIError.StatusCode = 500

(* C16 as stated: the adapter is resolved before the request copy and the *)
(* model mapping, so an unregistered API type fails before either runs. *)
C16_RegistryBeforeBuilder ==
    /\ Before("GetAdaptor", "DeepCopy")
    /\ Before("GetAdaptor", "ModelMappedHelper")

(* C16 amended: the stages run in the order copy, model mapping, adapter *)
(* lookup and Init, body construction, transport, reconciliation, then *)
(* error classification or usage accounting; an unregistered API type *)
(* fails with invalid_api_type after the copy and the mapping have run and *)
(* before any body construction, transport or reconciliation. *)
C16_StageOrder ==
    /\ \A i, j \in 1..Len(calls) : i < j => CallRank(calls[i]) <= CallRank(calls[j])
    /\ \A op \in Range(calls) : Count(op) = 1
    /\ Before("DeepCopy", "ModelMappedHelper")
    /\ Before("ModelMappedHelper", "GetAdaptor")
    /\ \A op \in {"GetRequestBody", "ConvertImageRequest", "DoRequest"} :
          Before("Init", op)
    /\ Before("DoRequest", "DoResponse")
    /\ Before("DoRequest", "RelayErrorHandler")
    /\ Before("DoResponse", "postConsumeQuota")
    /\ failStage = "get_adaptor" =>
          /\ newAPIError.code = "invalid_api_type"
          /\ calls = <<"DeepCopy", "ModelMappedHelper", "GetAdaptor">>
C16_Witness ==
    /\ result = "error"
    /\ failStage = "get_adaptor"
    /\ info.ApiType = UnknownApiType
    /\ calls = <<"DeepCopy", "ModelMappedHelper", "GetAdaptor">>

FormRead == Called("getImageCountAndSizeInfo")

(* C17 as stated: when c.MultipartForm returns an error ImageHelper *)
(* returns an APIError and does not consume quota. *)
C17_FormFailureUnwinds ==
    (FormRead /\ form.err) => (result = "error" /\ quotaCalls = <<>>)

(* C17 amended: when c.MultipartForm returns an error the image metadata *)
(* is absent (count 0, empty size string), and ImageHelper still returns *)
(* nil and consumes quota once, with a descriptor without input images. *)
C17_FormFailureIgnored ==
    (FormRead /\ form.err) =>
        /\ result = "ok"
        /\ newAPIError = NoError
        /\ Len(quotaCalls) = 1
        /\ imageCount = 0
        /\ imageSizeInfo = ""
        /\ quotaCalls[1].logContent =
              "size " \o request.Size \o ", quality " \o quality
                \o ", count " \o ToString(request.N)
C17_Witness ==
    /\ FormRead
    /\ form.err
    /\ form.File # {}
    /\ result = "ok"
    /\ Len(quotaCalls) = 1

(* C18: the descriptor handed to quota consumption is non-empty exactly *)
(* when the request's size is non-empty; it then carries size, quality *)
(* tier and N, the input images only when the image count is above 0, and *)
(* the parenthesized size only when the size string is non-empty. *)
DescriptorBase ==
    "size " \o request.Size \o ", quality " \o quality
      \o ", count " \o ToString(request.N)
DescriptorImages == ", input images " \o ToString(imageCount)
DescriptorSuffix == " (" \o imageSizeInfo \o ")"
C18_Descriptor ==
    result = "ok" =>
        LET logContent == quotaCalls[1].logContent
        IN  /\ logContent # "" <=> request.Size # ""
            /\ (request.Size # "" /\ imageCount = 0) =>
                  logContent = DescriptorBase
            /\ (request.Size # "" /\ imageCount > 0 /\ imageSizeInfo = "") =>
                  logContent = DescriptorBase \o DescriptorImages
            /\ (request.Size # "" /\ imageCount > 0 /\ imageSizeInfo # "") =>
                  logContent = DescriptorBase \o DescriptorImages \o DescriptorSuffix
C18_Witness ==
    /\ result = "ok"
    /\ request.Size # ""
    /\ imageCount = 1
    /\ imageSizeInfo = ""
    /\ quotaCalls[1].logContent = DescriptorBase \o ", input images 1"

(* C19: no step of ImageHelper clears the stream flag: once info.IsStream *)
(* is true it is true after every later step. *)
C19_StreamFlagNeverCleared == [][info.IsStream => info'.IsStream]_vars
C19_Witness ==
    /\ pc = "done"
    /\ entryIsStream
    /\ httpResp.present
    /\ httpResp.ContentType = CtJson
    /\ httpResp.StatusCode # StatusOK
    /\ info.IsStream

(* C20: DoResponse is invoked at most once, and only after DoRequest *)
(* returned no error and either no response or a response with status *)
(* 200; with no response the stream flag is as at entry and DoResponse *)
(* receives no response. *)
C20_DoResponseGuard ==
    /\ Count("DoResponse") <= 1
    /\ Len(doResponseArgs) = Count("DoResponse")
    /\ Called("DoResponse") =>
          /\ Called("DoRequest")
          /\ failStage # "do_request"
          /\ ~httpResp.present \/ httpResp.StatusCode = 200
          /\ doResponseArgs = <<httpResp>>
          /\ ~httpResp.present =>
                /\ info.IsStream = entryIsStream
                /\ doResponseArgs = <<NoResp>>
C20_Witness ==
    /\ Called("DoResponse")
    /\ ~httpResp.present
    /\ doResponseArgs = <<NoResp>>
    /\ info.IsStream = entryIsStream
    /\ result = "ok"

====
